---------------------------- MODULE Spec2Model ----------------------------
(***************************************************************************)
(* A model of prepare_data.py: the field parsers, the composite score      *)
(* builder, engineer_features and the chunked driver                       *)
(* process_full_dataset_chunked.                                           *)
(*                                                                         *)
(* Representation.                                                         *)
(*   text     a Python str is a sequence of one-character strings.         *)
(*   NaN      the missing marker of a raw cell is the text-typed value     *)
(*            <<"NaN">> (no str is equal to it: its element is not one     *)
(*            character long).                                             *)
(*   number   a float is an exact fraction <<n, d>> in lowest terms with   *)
(*            d > 0; the float NaN is <<0, 0>>.  Rounding is not modelled. *)
(*   frame    a DataFrame is [columns |-> sequence of names,               *)
(*            rows |-> sequence of rows], a row being the sequence of its  *)
(*            cells in column order.  Column names are strings.            *)
(***************************************************************************)
EXTENDS Integers, Sequences, FiniteSets, TLC

VARIABLES
    fn,                \* helper under call: "term", "emp_length", "percentage", "fico"
    arg,               \* the helper's argument (a raw scalar, or a frame)
    ret,               \* the helper's outcome, "pending" before the call
    pc,                \* position of the driver in process_full_dataset_chunked
    source,            \* the input CSV as read_csv delivers it: a raw frame
    sample_rows,       \* argument sample_rows
    chunk_size,        \* argument chunk_size
    df_sample,         \* local of engineer_sample_and_get_schema
    engineered_sample, \* local of the driver
    schema_columns,    \* local of the driver
    reader,            \* number of source rows the chunk reader has consumed
    chunk,             \* loop variable of the driver
    engineered_chunk,  \* local of the driver
    output,            \* the output file: a sequence of lines
    total_rows_processed,
    chunk_idx,
    live,              \* the frames bound to a local: <<variable, batch>>, batch 0
                       \* being the sample and batch k the k-th chunk
    raised             \* the exception that ended the run, "none" otherwise

helperVars == <<fn, arg, ret>>
driverVars == <<pc, source, sample_rows, chunk_size, df_sample, engineered_sample,
                schema_columns, reader, chunk, engineered_chunk, output,
                total_rows_processed, chunk_idx, live, raised>>
vars == <<fn, arg, ret, pc, source, sample_rows, chunk_size, df_sample,
          engineered_sample, schema_columns, reader, chunk, engineered_chunk,
          output, total_rows_processed, chunk_idx, live, raised>>

(***************************************************************************)
(* Bounds of the model.                                                    *)
(***************************************************************************)
MaxLen == 3        \* longest enumerated raw string handed to a parser
MaxRows == 3       \* most data rows of a source file
MaxSample == 2     \* largest sample_rows
MaxChunk == 2      \* largest chunk_size

(***************************************************************************)
(* Characters and Python's str methods.                                    *)
(***************************************************************************)
\* The characters that occur, in code point order.
Chars == <<" ", "%", "+", ".", "0", "1", "2", "3", "4", "5", "6", "7", "8", "9",
           "<", "A", "B", "C", "D", "E", "F", "G", "H", "I", "J", "K", "L", "M",
           "N", "O", "P", "Q", "R", "S", "T", "U", "V", "W", "X", "Y", "Z", "_",
           "a", "b", "c", "d", "e", "f", "g", "h", "i", "j", "k", "l", "m",
           "n", "o", "p", "q", "r", "s", "t", "u", "v", "w", "x", "y", "z">>

Code(ch) == CHOOSE i \in DOMAIN Chars : Chars[i] = ch

UpperChars == <<"A", "B", "C", "D", "E", "F", "G", "H", "I", "J", "K", "L", "M",
                "N", "O", "P", "Q", "R", "S", "T", "U", "V", "W", "X", "Y", "Z">>
LowerChars == <<"a", "b", "c", "d", "e", "f", "g", "h", "i", "j", "k", "l", "m",
                "n", "o", "p", "q", "r", "s", "t", "u", "v", "w", "x", "y", "z">>

DigitChars == <<"0", "1", "2", "3", "4", "5", "6", "7", "8", "9">>

\* ch.isdigit()
IsDigit(ch) == \E i \in DOMAIN DigitChars : DigitChars[i] = ch

DigitValue(ch) == (CHOOSE i \in DOMAIN DigitChars : DigitChars[i] = ch) - 1

LowerChar(ch) ==
    IF \E i \in DOMAIN UpperChars : UpperChars[i] = ch
    THEN LowerChars[CHOOSE i \in DOMAIN UpperChars : UpperChars[i] = ch]
    ELSE ch

\* s.lower()
StrLower(s) == [i \in DOMAIN s |-> LowerChar(s[i])]

\* s.strip(): leading and trailing blanks removed
RECURSIVE LStrip(_)
LStrip(s) == IF s # <<>> /\ Head(s) = " " THEN LStrip(Tail(s)) ELSE s

RECURSIVE RStrip(_)
RStrip(s) ==
    IF s # <<>> /\ s[Len(s)] = " " THEN RStrip(SubSeq(s, 1, Len(s) - 1)) ELSE s

Strip(s) == RStrip(LStrip(s))

\* s.replace(ch, "")
Remove(s, ch) == SelectSeq(s, LAMBDA c : c # ch)

\* "".join(ch for ch in s if ch.isdigit())
DigitsOf(s) == SelectSeq(s, IsDigit)

\* The text as one string (used to build column names).
RECURSIVE Str(_)
Str(s) == IF s = <<>> THEN "" ELSE Head(s) \o Str(Tail(s))

\* s < t in Python's ordering of str
RECURSIVE TextLess(_, _)
TextLess(s, t) ==
    IF t = <<>> THEN FALSE
    ELSE IF s = <<>> THEN TRUE
    ELSE IF Head(s) = Head(t) THEN TextLess(Tail(s), Tail(t))
    ELSE Code(Head(s)) < Code(Head(t))

(***************************************************************************)
(* Numbers.                                                                *)
(***************************************************************************)
RECURSIVE GCD(_, _)
GCD(a, b) == IF b = 0 THEN a ELSE GCD(b, a % b)

NumNaN == <<0, 0>>

IsNumNaN(x) == x[2] = 0

\* n / d in lowest terms
Frac(n, d) == LET g == GCD(n, d) IN <<n \div g, d \div g>>

Whole(n) == <<n, 1>>

NumAdd(x, y) ==
    IF IsNumNaN(x) \/ IsNumNaN(y) THEN NumNaN
    ELSE Frac(x[1] * y[2] + y[1] * x[2], x[2] * y[2])

NumHalf(x) == IF IsNumNaN(x) THEN NumNaN ELSE Frac(x[1], 2 * x[2])

NumLess(x, y) == x[1] * y[2] < y[1] * x[2]

RECURSIVE NatOf(_)
NatOf(ds) ==
    IF ds = <<>> THEN 0
    ELSE 10 * NatOf(SubSeq(ds, 1, Len(ds) - 1)) + DigitValue(ds[Len(ds)])

RECURSIVE Pow10(_)
Pow10(k) == IF k = 0 THEN 1 ELSE 10 * Pow10(k - 1)

(***************************************************************************)
(* The missing marker of raw cells, pd.isna, and float().                  *)
(***************************************************************************)
NaN == <<"NaN">>

\* pd.isna(value)
IsNa(v) == v = NaN

\* Position of the first "." of s, 0 when there is none.
DotAt(s) ==
    IF \E i \in DOMAIN s : s[i] = "."
    THEN CHOOSE i \in DOMAIN s : s[i] = "." /\ \A j \in 1..(i - 1) : s[j] # "."
    ELSE 0

\* An unsigned decimal literal: digits, at most one ".", at least one digit.
IsDecimal(s) ==
    /\ s # <<>>
    /\ \A i \in DOMAIN s : IsDigit(s[i]) \/ s[i] = "."
    /\ Cardinality({i \in DOMAIN s : s[i] = "."}) <= 1
    /\ \E i \in DOMAIN s : IsDigit(s[i])

Unsigned(s) == IF s # <<>> /\ Head(s) = "+" THEN Tail(s) ELSE s

\* Whether float(s) accepts s: surrounding blanks, an optional sign, a decimal
\* literal.  (Exponents, "inf", "nan" and "_" cannot be spelled with the
\* characters of the raw values of this model.)
FloatAccepts(s) == IsDecimal(Unsigned(Strip(s)))

FloatValue(s) ==
    LET u == Unsigned(Strip(s))
        k == DotAt(u)
        nfrac == IF k = 0 THEN 0 ELSE Len(u) - k
    IN  Frac(NatOf(DigitsOf(u)), Pow10(nfrac))

\* The outcome of a call: a returned number, or a raised exception.
Return(x) == [raised |-> "none", value |-> x]
Raise(e) == [raised |-> e, value |-> NumNaN]

\* float(s)
PyFloat(s) == IF FloatAccepts(s) THEN Return(FloatValue(s)) ELSE Raise("ValueError")

(***************************************************************************)
(* Helper parsing functions.                                               *)
(***************************************************************************)
\* A variant that stops at the end of the first run of digits.
RECURSIVE FirstDigitRun(_)
FirstDigitRun(s) ==
    IF s = <<>> THEN <<>>
    ELSE IF ~IsDigit(Head(s)) THEN FirstDigitRun(Tail(s))
    ELSE IF Len(s) = 1 \/ ~IsDigit(s[2]) THEN <<Head(s)>>
    ELSE <<Head(s)>> \o FirstDigitRun(Tail(s))

parse_term_first_run(term_value) ==
    IF IsNa(term_value) THEN [raised |-> "none", value |-> NumNaN]
    ELSE LET digits == FirstDigitRun(term_value)
         IN  IF digits # <<>> THEN [raised |-> "none", value |-> Whole(NatOf(digits))]
             ELSE [raised |-> "none", value |-> NumNaN]

parse_term(term_value) ==
    IF IsNa(term_value) THEN Return(NumNaN)
    ELSE LET digits == DigitsOf(term_value)
         IN  IF digits # <<>> THEN PyFloat(digits) ELSE Return(NumNaN)

TenYears == {<<"1", "0", "+", " ", "y", "e", "a", "r", "s">>,
             <<"1", "0", " ", "y", "e", "a", "r", "s">>,
             <<"1", "0", "+">>}
UnderOneYear == {<<"<", " ", "1", " ", "y", "e", "a", "r">>,
                 <<"<", "1", " ", "y", "e", "a", "r">>,
                 <<"<", "1">>}

parse_emp_length(emp_length_value) ==
    IF IsNa(emp_length_value) THEN Return(NumNaN)
    ELSE LET value == StrLower(Strip(emp_length_value))
             digits == DigitsOf(value)
         IN  IF value \in TenYears THEN Return(Whole(10))
             ELSE IF value \in UnderOneYear THEN Return(Whole(0))
             ELSE IF digits # <<>> THEN PyFloat(digits) ELSE Return(NumNaN)

parse_percentage(value) ==
    IF IsNa(value) THEN Return(NumNaN)
    ELSE LET cleaned == Strip(Remove(value, "%"))
         IN  IF cleaned # <<>> THEN PyFloat(cleaned) ELSE Return(NumNaN)

(***************************************************************************)
(* Frames.                                                                 *)
(***************************************************************************)
Range(f) == {f[i] : i \in DOMAIN f}

HasColumn(df, name) == name \in Range(df.columns)

\* Position of the (first) column called name.
ColumnAt(df, name) ==
    CHOOSE i \in DOMAIN df.columns :
        df.columns[i] = name /\ \A j \in 1..(i - 1) : df.columns[j] # name

\* df[name]
Column(df, name) == [r \in DOMAIN df.rows |-> df.rows[r][ColumnAt(df, name)]]

\* df[name] = values: the column is replaced in place, or added at the end.
SetColumn(df, name, values) ==
    IF HasColumn(df, name)
    THEN [df EXCEPT !.rows =
            [r \in DOMAIN df.rows |->
                [df.rows[r] EXCEPT ![ColumnAt(df, name)] = values[r]]]]
    ELSE [columns |-> Append(df.columns, name),
          rows |-> [r \in DOMAIN df.rows |-> Append(df.rows[r], values[r])]]

\* df[mask]
RECURSIVE KeepRows(_, _)
KeepRows(rows, mask) ==
    IF rows = <<>> THEN <<>>
    ELSE IF Head(mask) THEN <<Head(rows)>> \o KeepRows(Tail(rows), Tail(mask))
    ELSE KeepRows(Tail(rows), Tail(mask))

\* pd.to_numeric(cell, errors="coerce") of a raw cell
ToNumeric(cell) ==
    IF IsNa(cell) THEN NumNaN
    ELSE IF FloatAccepts(cell) THEN FloatValue(cell) ELSE NumNaN

ToNumericSeries(series) == [r \in DOMAIN series |-> ToNumeric(series[r])]

(***************************************************************************)
(* _build_fico_score                                                       *)
(***************************************************************************)
\* A variant that falls back to the other bound where one is missing.
build_fico_score_fallback(df) ==
    LET hasLow == HasColumn(df, "fico_range_low")
        hasHigh == HasColumn(df, "fico_range_high")
        low == IF hasLow THEN ToNumericSeries(Column(df, "fico_range_low"))
               ELSE [r \in DOMAIN df.rows |-> NumNaN]
        high == IF hasHigh THEN ToNumericSeries(Column(df, "fico_range_high"))
                ELSE [r \in DOMAIN df.rows |-> NumNaN]
    IN  [r \in DOMAIN df.rows |->
            IF IsNumNaN(low[r]) THEN high[r]
            ELSE IF IsNumNaN(high[r]) THEN low[r]
            ELSE NumHalf(NumAdd(low[r], high[r]))]

build_fico_score(df) ==
    LET hasLow == HasColumn(df, "fico_range_low")
        hasHigh == HasColumn(df, "fico_range_high")
    IN  IF hasLow /\ hasHigh
        THEN LET low == ToNumericSeries(Column(df, "fico_range_low"))
                 high == ToNumericSeries(Column(df, "fico_range_high"))
             IN  [r \in DOMAIN df.rows |-> NumHalf(NumAdd(low[r], high[r]))]
        ELSE IF hasLow THEN ToNumericSeries(Column(df, "fico_range_low"))
        ELSE IF hasHigh THEN ToNumericSeries(Column(df, "fico_range_high"))
        ELSE [r \in DOMAIN df.rows |-> NumNaN]

(***************************************************************************)
(* Configuration / column lists                                            *)
(***************************************************************************)
RAW_CATEGORICAL_COLUMNS ==
    <<"term", "emp_length", "home_ownership", "purpose", "addr_state",
      "application_type">>

RAW_NUMERIC_COLUMNS ==
    <<"loan_amnt", "int_rate", "annual_inc", "dti", "delinq_2yrs",
      "fico_range_high", "fico_range_low", "inq_last_6mths">>

TARGET_COLUMN == "loan_status"

(***************************************************************************)
(* engineer_features                                                       *)
(***************************************************************************)
\* _normalize_columns: the header names are raw text, the normalized names
\* are strings.
normalize_columns(df) ==
    [columns |-> [i \in DOMAIN df.columns |-> Str(Strip(StrLower(df.columns[i])))],
     rows |-> df.rows]

\* series.astype(str) of one raw cell: the missing marker becomes "nan".
AsTypeStr(cell) == IF IsNa(cell) THEN <<"n", "a", "n">> ELSE cell

\* series.apply(parser), for each of the three parsers
ApplyParseTerm(series) == [r \in DOMAIN series |-> parse_term(series[r])]
ApplyParseEmpLength(series) == [r \in DOMAIN series |-> parse_emp_length(series[r])]
ApplyParsePercentage(series) == [r \in DOMAIN series |-> parse_percentage(series[r])]

AnyRaised(outcomes) == \E r \in DOMAIN outcomes : outcomes[r].raised # "none"

Values(outcomes) == [r \in DOMAIN outcomes |-> outcomes[r].value]

\* A variant that does not trim the label.
MapLabel_untrimmed(cell) ==
    LET label == StrLower(AsTypeStr(cell))
    IN  IF label = <<"a", "c", "c", "e", "p", "t", "e", "d">> THEN Whole(1)
        ELSE IF label = <<"r", "e", "j", "e", "c", "t", "e", "d">> THEN Whole(0)
        ELSE NumNaN

\* .astype(str).str.strip().str.lower().map({"accepted": 1, "rejected": 0})
MapLabel(cell) ==
    LET label == StrLower(Strip(AsTypeStr(cell)))
    IN  IF label = <<"a", "c", "c", "e", "p", "t", "e", "d">> THEN Whole(1)
        ELSE IF label = <<"r", "e", "j", "e", "c", "t", "e", "d">> THEN Whole(0)
        ELSE NumNaN

\* The columns engineer_features has already made numeric when it reaches
\* pd.to_numeric: on them to_numeric changes nothing.
ParsedColumns == {"int_rate", "dti", "term_months", "emp_length_years", "fico_score"}

\* series.median(): of the values that are not missing
Median(series) ==
    LET vs == SortSeq(SelectSeq(series, LAMBDA x : ~IsNumNaN(x)), NumLess)
        n == Len(vs)
    IN  IF n = 0 THEN NumNaN
        ELSE IF n % 2 = 1 THEN vs[(n + 1) \div 2]
        ELSE NumHalf(NumAdd(vs[n \div 2], vs[n \div 2 + 1]))

\* series.fillna(value)
FillNum(series, value) ==
    [r \in DOMAIN series |-> IF IsNumNaN(series[r]) THEN value ELSE series[r]]

Count(series, v) == Cardinality({r \in DOMAIN series : series[r] = v})

\* The least text of a non-empty set, in str order.
LeastText(S) == CHOOSE v \in S : \A w \in S : w = v \/ TextLess(v, w)

\* series.mode(dropna=True).iloc[0], "unknown" when the mode is empty
FillValue(series) ==
    LET present == Range(series) \ {NaN}
        best == {v \in present : \A w \in present : Count(series, w) <= Count(series, v)}
    IN  IF present = {} THEN <<"u", "n", "k", "n", "o", "w", "n">> ELSE LeastText(best)

\* The distinct values of a set of texts, sorted.
RECURSIVE SortedTexts(_)
SortedTexts(S) ==
    IF S = {} THEN <<>> ELSE <<LeastText(S)>> \o SortedTexts(S \ {LeastText(S)})

\* pd.get_dummies of one column: its indicator column names ...
DummyNames(name, series) ==
    LET cats == SortedTexts(Range(series))
    IN  [k \in DOMAIN cats |-> name \o "_" \o Str(cats[k])]

\* ... and the indicator cells of one value.
DummyCells(series, value) ==
    LET cats == SortedTexts(Range(series))
    IN  [k \in DOMAIN cats |-> IF value = cats[k] THEN Whole(1) ELSE Whole(0)]

RECURSIVE ConcatAll(_)
ConcatAll(ss) == IF ss = <<>> THEN <<>> ELSE Head(ss) \o ConcatAll(Tail(ss))

Engineered(frame) == [raised |-> "none", frame |-> frame]
EngineeringRaised(e) == [raised |-> e, frame |-> [columns |-> <<>>, rows |-> <<>>]]

\* Target encoding: the label column mapped, then only the rows kept whose
\* label is 0 or 1.
EncodeTarget(working) ==
    IF HasColumn(working, TARGET_COLUMN)
    THEN LET labels == [r \in DOMAIN working.rows |->
                           MapLabel(Column(working, TARGET_COLUMN)[r])]
             mapped == SetColumn(working, TARGET_COLUMN, labels)
             mask_valid == [r \in DOMAIN labels |-> labels[r] \in {Whole(0), Whole(1)}]
         IN  [columns |-> mapped.columns, rows |-> KeepRows(mapped.rows, mask_valid)]
    ELSE working

\* A variant that keeps the composite score only when a bound field is there.
NumericFeatures_score_with_bounds(working) ==
    SelectSeq(RAW_NUMERIC_COLUMNS \o <<"term_months", "emp_length_years", "fico_score">>,
              LAMBDA c : /\ HasColumn(working, c)
                         /\ c = "fico_score" =>
                              \/ HasColumn(working, "fico_range_low")
                              \/ HasColumn(working, "fico_range_high"))

\* Identify the numeric features; coerce and impute each.
NumericFeatures(working) ==
    SelectSeq(RAW_NUMERIC_COLUMNS \o <<"term_months", "emp_length_years", "fico_score">>,
              LAMBDA c : HasColumn(working, c))

\* A variant that keeps the median of the sample for the later batches.
ImputedNumeric_sample_median(working, column) ==
    LET numeric == IF column \in ParsedColumns THEN Column(working, column)
                   ELSE ToNumericSeries(Column(working, column))
        median_val == IF HasColumn(engineered_sample, column)
                      THEN Median(Column(engineered_sample, column))
                      ELSE Median(numeric)
    IN  FillNum(numeric, median_val)

ImputedNumeric(working, column) ==
    LET numeric == IF column \in ParsedColumns THEN Column(working, column)
                   ELSE ToNumericSeries(Column(working, column))
        median_val == Median(numeric)
    IN  FillNum(numeric, median_val)

\* Identify the categorical features; normalize and impute each.
CategoricalFeatures(working) ==
    SelectSeq(RAW_CATEGORICAL_COLUMNS, LAMBDA c : HasColumn(working, c))

ImputedCategorical(working, column) ==
    LET raw == Column(working, column)
        text == [r \in DOMAIN raw |-> StrLower(Strip(AsTypeStr(raw[r])))]
        replaced == [r \in DOMAIN text |->
                        IF text[r] = <<"n", "a", "n">> THEN NaN ELSE text[r]]
        fill_value == FillValue(replaced)
    IN  [r \in DOMAIN replaced |-> IF IsNa(replaced[r]) THEN fill_value ELSE replaced[r]]

\* One-hot encoding and assembly of the final frame.
Assemble(working) ==
    LET numeric_features == NumericFeatures(working)
        categorical_features == CategoricalFeatures(working)
        num == [k \in DOMAIN numeric_features |->
                   ImputedNumeric(working, numeric_features[k])]
        cat == [k \in DOMAIN categorical_features |->
                   ImputedCategorical(working, categorical_features[k])]
        encoded == ConcatAll([k \in DOMAIN categorical_features |->
                                 DummyNames(categorical_features[k], cat[k])])
        hasTarget == HasColumn(working, TARGET_COLUMN)
    IN  [columns |-> numeric_features \o encoded
                       \o (IF hasTarget THEN <<TARGET_COLUMN>> ELSE <<>>),
         rows |-> [r \in DOMAIN working.rows |->
                      [k \in DOMAIN numeric_features |-> num[k][r]]
                      \o ConcatAll([k \in DOMAIN categorical_features |->
                                       DummyCells(cat[k], cat[k][r])])
                      \o (IF hasTarget THEN <<Column(working, TARGET_COLUMN)[r]>>
                          ELSE <<>>)]]

\* The derived numeric fields, the composite score, then the rest.
engineer_features(df0) ==
    LET df == normalize_columns(df0)
        term == IF HasColumn(df, "term") THEN ApplyParseTerm(Column(df, "term"))
                ELSE <<>>
        emp == IF HasColumn(df, "emp_length")
               THEN ApplyParseEmpLength(Column(df, "emp_length")) ELSE <<>>
        rate == IF HasColumn(df, "int_rate")
                THEN ApplyParsePercentage(Column(df, "int_rate")) ELSE <<>>
        dti == IF HasColumn(df, "dti")
               THEN ApplyParsePercentage(Column(df, "dti")) ELSE <<>>
    IN  IF AnyRaised(term) \/ AnyRaised(emp) \/ AnyRaised(rate) \/ AnyRaised(dti)
        THEN EngineeringRaised("ValueError")
        ELSE LET w1 == IF HasColumn(df, "term")
                       THEN SetColumn(df, "term_months", Values(term)) ELSE df
                 w2 == IF HasColumn(df, "emp_length")
                       THEN SetColumn(w1, "emp_length_years", Values(emp)) ELSE w1
                 w3 == IF HasColumn(df, "int_rate")
                       THEN SetColumn(w2, "int_rate", Values(rate)) ELSE w2
                 w4 == IF HasColumn(df, "dti")
                       THEN SetColumn(w3, "dti", Values(dti)) ELSE w3
                 w5 == SetColumn(w4, "fico_score", build_fico_score(w4))
             IN  Engineered(Assemble(EncodeTarget(w5)))

(***************************************************************************)
(* Calls of the helpers on bounded inputs.                                 *)
(***************************************************************************)
\* The texts of the raw values used as inputs.
Accepted == <<"A", "c", "c", "e", "p", "t", "e", "d">>
AcceptedShout == <<"A", "C", "C", "E", "P", "T", "E", "D", " ">>
Rejected == <<"r", "e", "j", "e", "c", "t", "e", "d">>
PendingLabel == <<"p", "e", "n", "d", "i", "n", "g">>
Months36 == <<"3", "6", " ", "m", "o", "n", "t", "h", "s">>
Months60 == <<"6", "0", " ", "M", "o", "n", "t", "h", "s">>
Months == <<"m", "o", "n", "t", "h", "s">>
Rent == <<"R", "E", "N", "T">>
Own == <<"o", "w", "n", " ">>
Years10 == <<"1", "0", "+", " ", "y", "e", "a", "r", "s">>
Under1 == <<"<", " ", "1", " ", "y", "e", "a", "r">>
Years == <<"y", "e", "a", "r", "s">>

ParserAlphabet == {"0", "1", "3", "6", " ", "%", "+", "<", ".", "m"}

TextsUpTo(alphabet, n) == UNION {[1..k -> alphabet] : k \in 0..n}

ExampleTexts == {Months36, Months60, Years10, Under1,
                 <<"5", " ", "y", "e", "a", "r", "s">>,
                 <<"1", "3", ".", "5", "%">>}

RawScalars == TextsUpTo(ParserAlphabet, MaxLen) \cup ExampleTexts \cup {NaN}

FicoCells == {<<"7", "0", "0">>, <<"7", "2", "0">>, <<"x">>, NaN}

FicoHeaders == {<<>>, <<"fico_range_low">>, <<"fico_range_high">>,
                <<"fico_range_low", "fico_range_high">>}

Pending == [raised |-> "pending", value |-> NumNaN]

NoFrame == [columns |-> <<>>, rows |-> <<>>]

HelpersIdle ==
    /\ fn = "none"
    /\ arg = <<>>
    /\ ret = Pending

\* Before any call: no helper has been called and the driver has not started.
Init ==
    /\ HelpersIdle
    /\ pc = "start"
    /\ source = NoFrame
    /\ sample_rows = 0
    /\ chunk_size = 1
    /\ df_sample = NoFrame
    /\ engineered_sample = NoFrame
    /\ schema_columns = <<>>
    /\ reader = [remaining |-> <<>>, first |-> TRUE]
    /\ chunk = NoFrame
    /\ engineered_chunk = NoFrame
    /\ output = <<>>
    /\ total_rows_processed = 0
    /\ chunk_idx = 0
    /\ live = {}
    /\ raised = "none"

CallParseTerm ==
    /\ ret = Pending
    /\ \E term_value \in RawScalars :
        /\ fn' = "term"
        /\ arg' = term_value
        /\ ret' = parse_term(term_value)
    /\ UNCHANGED driverVars

CallParseEmpLength ==
    /\ ret = Pending
    /\ \E emp_length_value \in RawScalars :
        /\ fn' = "emp_length"
        /\ arg' = emp_length_value
        /\ ret' = parse_emp_length(emp_length_value)
    /\ UNCHANGED driverVars

CallParsePercentage ==
    /\ ret = Pending
    /\ \E value \in RawScalars :
        /\ fn' = "percentage"
        /\ arg' = value
        /\ ret' = parse_percentage(value)
    /\ UNCHANGED driverVars

CallBuildFicoScore ==
    /\ ret = Pending
    /\ \E header \in FicoHeaders, n \in 0..MaxRows :
        \E rows \in [1..n -> [1..Len(header) -> FicoCells]] :
            /\ fn' = "fico"
            /\ arg' = [columns |-> header, rows |-> rows]
            /\ ret' = Return(build_fico_score([columns |-> header, rows |-> rows]))
    /\ UNCHANGED driverVars

NextHelpers ==
    \/ CallParseTerm
    \/ CallParseEmpLength
    \/ CallParsePercentage
    \/ CallBuildFicoScore

SpecHelpers == Init /\ [][NextHelpers]_vars

Returned == ret # Pending

TypeHelpers == Returned => ret.raised \in {"none", "ValueError"}

(***************************************************************************)
(* Chunked processing: process_full_dataset_chunked                        *)
(***************************************************************************)
\* Three files.  The first has a label, the term and a plain numeric field;
\* the second a percentage, the two score bounds and a label; the third the
\* employment length and a plain categorical field, and neither label nor
\* bounds.
LabelledHeader == <<<<"L", "o", "a", "n", "_", "S", "t", "a", "t", "u", "s", " ">>,
                    <<"t", "e", "r", "m">>,
                    <<"l", "o", "a", "n", "_", "a", "m", "n", "t">>>>
LabelledRows == {<<Accepted, Months36, <<"1">>>>,
                 <<Rejected, Months60, NaN>>,
                 <<AcceptedShout, NaN, <<"5">>>>,
                 <<PendingLabel, Months60, <<"9">>>>,
                 <<NaN, Months, <<"x">>>>}

ScoredHeader == <<<<"i", "n", "t", "_", "r", "a", "t", "e">>,
                  <<"f", "i", "c", "o", "_", "r", "a", "n", "g", "e", "_", "l", "o", "w">>,
                  <<"F", "I", "C", "O", "_", "R", "A", "N", "G", "E", "_", "H", "I", "G", "H">>,
                  <<"l", "o", "a", "n", "_", "s", "t", "a", "t", "u", "s">>>>
ScoredRows == {<<<<"7", "%">>, <<"7", "0", "0">>, <<"7", "2", "0">>, Accepted>>,
               <<NaN, <<"7", "0", "0">>, NaN, Rejected>>,
               <<<<"1", "3", ".", "5">>, <<"x">>, <<"7", "2", "0">>, Rejected>>,
               <<<<"x", "%">>, NaN, NaN, PendingLabel>>}

PlainHeader == <<<<"e", "m", "p", "_", "l", "e", "n", "g", "t", "h">>,
                 <<"h", "o", "m", "e", "_", "o", "w", "n", "e", "r", "s", "h", "i", "p">>>>
PlainRows == {<<Years10, Rent>>, <<Under1, Own>>, <<NaN, NaN>>, <<Years, Rent>>}

SourceFiles == {[header |-> LabelledHeader, rows |-> LabelledRows],
                [header |-> ScoredHeader, rows |-> ScoredRows],
                [header |-> PlainHeader, rows |-> PlainRows]}

Min(a, b) == IF a < b THEN a ELSE b

\* A variant that reads one row more than asked.
ReadRows_one_more(src, n) ==
    [columns |-> src.columns, rows |-> SubSeq(src.rows, 1, Min(n + 1, Len(src.rows)))]

\* pd.read_csv(input_path, nrows=n): the first n data rows
ReadRows(src, n) == [columns |-> src.columns, rows |-> SubSeq(src.rows, 1, Min(n, Len(src.rows)))]

\* pd.read_csv(..., skiprows=skip): the data rows whose line number is not
\* skipped (line 0 is the header, data row i is line i).
RECURSIVE SkipRows(_, _, _)
SkipRows(rows, skip, line) ==
    IF rows = <<>> THEN <<>>
    ELSE (IF line \in skip THEN <<>> ELSE <<Head(rows)>>)
         \o SkipRows(Tail(rows), skip, line + 1)

\* df.to_csv(path, index=False): the header line and one line per row
HeaderLine(df) == [header |-> TRUE, cells |-> df.columns]
DataLines(df) == [r \in DOMAIN df.rows |-> [header |-> FALSE, cells |-> df.rows[r]]]

\* df.empty
IsEmpty(df) == Len(df.rows) = 0 \/ Len(df.columns) = 0

HasDuplicates(names) == \E i, j \in DOMAIN names : i # j /\ names[i] = names[j]

\* A variant that leaves the chunk's own columns.
Reindex_unaligned(df, columns) == df

\* A variant that fills the columns the chunk lacks with the missing marker.
Reindex_fill_missing(df, columns) ==
    [columns |-> columns,
     rows |-> [r \in DOMAIN df.rows |->
                 [k \in DOMAIN columns |->
                     IF HasColumn(df, columns[k]) THEN Column(df, columns[k])[r]
                     ELSE NumNaN]]]

\* df.reindex(columns=columns, fill_value=0) of a frame whose column names
\* are distinct (reindex raises when they are not)
Reindex(df, columns) ==
    [columns |-> columns,
     rows |-> [r \in DOMAIN df.rows |->
                 [k \in DOMAIN columns |->
                     IF HasColumn(df, columns[k]) THEN Column(df, columns[k])[r]
                     ELSE Whole(0)]]]

Bind(name, batch) == {b \in live : b[1] # name} \cup {<<name, batch>>}

Fail(e) ==
    /\ pc' = "failed"
    /\ raised' = e
    /\ live' = {}

\* The call, and line 216: the first sample_rows rows are read
ReadSample ==
    /\ pc = "start"
    /\ \E file \in SourceFiles, len \in 0..MaxRows :
        \E rows \in [1..len -> file.rows], n \in 0..MaxSample, c \in 1..MaxChunk :
            /\ source' = [columns |-> file.header, rows |-> rows]
            /\ sample_rows' = n
            /\ chunk_size' = c
            /\ df_sample' = ReadRows([columns |-> file.header, rows |-> rows], n)
    /\ live' = Bind("df_sample", 0)
    /\ pc' = "sample_read"
    /\ UNCHANGED <<helperVars, engineered_sample, schema_columns, reader, chunk,
                   engineered_chunk, output, total_rows_processed, chunk_idx, raised>>

\* lines 219-223 and 247: the sample is engineered, the schema is its column
\* list, and engineer_sample_and_get_schema returns
EngineerSample ==
    /\ pc = "sample_read"
    /\ \E out \in {engineer_features(df_sample)} :
           IF out.raised # "none"
           THEN /\ Fail(out.raised)
                /\ UNCHANGED <<engineered_sample, schema_columns>>
           ELSE /\ engineered_sample' = out.frame
                /\ schema_columns' = out.frame.columns
                /\ live' = {<<"engineered_sample", 0>>}
                /\ pc' = "sample_engineered"
                /\ UNCHANGED raised
    /\ df_sample' = NoFrame
    /\ UNCHANGED <<helperVars, source, sample_rows, chunk_size, reader, chunk,
                   engineered_chunk, output, total_rows_processed, chunk_idx>>

\* lines 255-270: the sample is written with its header, the rows are counted
\* and the chunk reader is opened past the sample's lines
WriteSample ==
    /\ pc = "sample_engineered"
    /\ output' = <<HeaderLine(engineered_sample)>> \o DataLines(engineered_sample)
    /\ total_rows_processed' = Len(engineered_sample.rows)
    /\ reader' = [remaining |-> SkipRows(source.rows, 1..sample_rows, 1), first |-> TRUE]
    /\ pc' = "loop"
    /\ UNCHANGED <<helperVars, source, sample_rows, chunk_size, df_sample,
                   engineered_sample, schema_columns, chunk, engineered_chunk,
                   chunk_idx, live, raised>>

\* lines 273-275: the reader yields the next chunk_size rows
NextChunk ==
    /\ pc = "loop"
    /\ reader.remaining # <<>>
    /\ LET n == Min(chunk_size, Len(reader.remaining))
       IN  /\ chunk' = [columns |-> source.columns,
                        rows |-> SubSeq(reader.remaining, 1, n)]
           /\ reader' = [remaining |-> SubSeq(reader.remaining, n + 1,
                                              Len(reader.remaining)),
                         first |-> FALSE]
    /\ chunk_idx' = chunk_idx + 1
    /\ live' = Bind("chunk", chunk_idx + 1)
    /\ pc' = "chunk_read"
    /\ UNCHANGED <<helperVars, source, sample_rows, chunk_size, df_sample,
                   engineered_sample, schema_columns, engineered_chunk, output,
                   total_rows_processed, raised>>

\* line 273 when no row is left at the first read: the reader may yield one
\* chunk with the header's columns and no row
FirstChunkEmpty ==
    /\ pc = "loop"
    /\ reader.remaining = <<>>
    /\ reader.first
    /\ chunk' = [columns |-> source.columns, rows |-> <<>>]
    /\ reader' = [reader EXCEPT !.first = FALSE]
    /\ chunk_idx' = chunk_idx + 1
    /\ live' = Bind("chunk", chunk_idx + 1)
    /\ pc' = "chunk_read"
    /\ UNCHANGED <<helperVars, source, sample_rows, chunk_size, df_sample,
                   engineered_sample, schema_columns, engineered_chunk, output,
                   total_rows_processed, raised>>

\* lines 273 and 297-299: the reader is exhausted and the driver returns
Finish ==
    /\ pc = "loop"
    /\ reader.remaining = <<>>
    /\ pc' = "done"
    /\ live' = {}
    /\ UNCHANGED <<helperVars, source, sample_rows, chunk_size, df_sample,
                   engineered_sample, schema_columns, reader, chunk,
                   engineered_chunk, output, total_rows_processed, chunk_idx,
                   raised>>

\* lines 277-280: the chunk is engineered; an empty result is skipped
EngineerChunk ==
    /\ pc = "chunk_read"
    /\ \E out \in {engineer_features(chunk)} :
           IF out.raised # "none"
           THEN /\ Fail(out.raised)
                /\ UNCHANGED engineered_chunk
           ELSE /\ engineered_chunk' = out.frame
                /\ live' = Bind("engineered_chunk", chunk_idx)
                /\ pc' = IF IsEmpty(out.frame) THEN "loop" ELSE "chunk_engineered"
                /\ UNCHANGED raised
    /\ UNCHANGED <<helperVars, source, sample_rows, chunk_size, df_sample,
                   engineered_sample, schema_columns, reader, chunk, output,
                   total_rows_processed, chunk_idx>>

\* line 283: the columns are aligned to the schema
ReindexChunk ==
    /\ pc = "chunk_engineered"
    /\ IF HasDuplicates(engineered_chunk.columns)
       THEN /\ Fail("ValueError")
            /\ UNCHANGED engineered_chunk
       ELSE /\ engineered_chunk' = Reindex(engineered_chunk, schema_columns)
            /\ pc' = "chunk_aligned"
            /\ UNCHANGED <<live, raised>>
    /\ UNCHANGED <<helperVars, source, sample_rows, chunk_size, df_sample,
                   engineered_sample, schema_columns, reader, chunk, output,
                   total_rows_processed, chunk_idx>>

\* lines 286-293: the chunk is appended without a header and counted
AppendChunk ==
    /\ pc = "chunk_aligned"
    /\ output' = output \o DataLines(engineered_chunk)
    /\ total_rows_processed' = total_rows_processed + Len(engineered_chunk.rows)
    /\ pc' = "loop"
    /\ UNCHANGED <<helperVars, source, sample_rows, chunk_size, df_sample,
                   engineered_sample, schema_columns, reader, chunk,
                   engineered_chunk, chunk_idx, live, raised>>

Next ==
    \/ ReadSample
    \/ EngineerSample
    \/ WriteSample
    \/ NextChunk
    \/ FirstChunkEmpty
    \/ Finish
    \/ EngineerChunk
    \/ ReindexChunk
    \/ AppendChunk

Spec == Init /\ [][Next]_vars

TypeDriver ==
    /\ pc \in {"start", "sample_read", "sample_engineered", "loop", "chunk_read",
               "chunk_engineered", "chunk_aligned", "done", "failed"}
    /\ raised \in {"none", "ValueError"}

(***************************************************************************)
(* Properties of the helpers (checked under SpecHelpers).                  *)
(***************************************************************************)
IsParserCall == fn \in {"term", "emp_length", "percentage"}

\* C4: every field parser returns a number or the missing marker and never
\* raises, whatever raw scalar it is given.
C4_ParsersNeverRaise == (IsParserCall /\ Returned) => ret.raised = "none"

\* The maximal runs of digits of s, in order.
RECURSIVE DigitRuns(_, _)
DigitRuns(s, run) ==
    IF s = <<>> THEN (IF run = <<>> THEN <<>> ELSE <<run>>)
    ELSE IF IsDigit(Head(s)) THEN DigitRuns(Tail(s), Append(run, Head(s)))
    ELSE (IF run = <<>> THEN <<>> ELSE <<run>>) \o DigitRuns(Tail(s), <<>>)

BoundValue(cell) ==
    IF cell = <<"7", "0", "0">> THEN Whole(700)
    ELSE IF cell = <<"7", "2", "0">> THEN Whole(720)
    ELSE NumNaN

ExpectedLabel(cell) ==
    IF cell \in {Accepted, AcceptedShout} THEN Whole(1)
    ELSE IF cell = Rejected THEN Whole(0)
    ELSE NumNaN

\* Position of the label field in a header, 0 when it has none.
LabelAt(header) ==
    IF header = LabelledHeader THEN 1 ELSE IF header = ScoredHeader THEN 4 ELSE 0

\* The rows of a raw batch that the label filter is to keep.
ValidRows(df) ==
    IF LabelAt(df.columns) = 0 THEN df.rows
    ELSE SelectSeq(df.rows,
                   LAMBDA row : ExpectedLabel(row[LabelAt(df.columns)]) # NumNaN)

Last(seq) == seq[Len(seq)]

\* The raw batch whose engineered form the driver holds, when it holds one
\* that has not been reindexed: the sample after line 219, a chunk after
\* line 277.
SampleEngineered == pc = "sample_engineered"
ChunkEngineered ==
    \/ pc = "chunk_engineered"
    \/ pc = "loop" /\ <<"engineered_chunk", chunk_idx>> \in live /\ IsEmpty(engineered_chunk)
RawBatch == IF SampleEngineered THEN ReadRows(source, sample_rows) ELSE chunk
EngineeredBatch == IF SampleEngineered THEN engineered_sample ELSE engineered_chunk

\* C1: the output file starts with one header line equal to the canonical
\* schema (the column list of the engineered sample), no other line is a
\* header, every data line has as many cells as the header, and every segment
\* handed to the sink has exactly the schema's columns in the schema's order.
C1_OneHeaderOneSchema ==
    /\ pc \in {"start", "sample_read", "sample_engineered"} => output = <<>>
    /\ pc \in {"sample_engineered", "loop", "chunk_read", "chunk_engineered",
               "chunk_aligned"} => schema_columns = engineered_sample.columns
    /\ output # <<>> =>
        /\ output[1] = [header |-> TRUE, cells |-> schema_columns]
        /\ \A i \in 2..Len(output) :
            /\ ~output[i].header
            /\ Len(output[i].cells) = Len(schema_columns)
    /\ pc = "chunk_aligned" =>
        /\ engineered_chunk.columns = schema_columns
        /\ \A r \in DOMAIN engineered_chunk.rows :
            Len(engineered_chunk.rows[r]) = Len(schema_columns)

\* A chunk whose engineered columns were not the schema's has been appended.
C1_Witness ==
    /\ pc = "loop"
    /\ <<"engineered_chunk", chunk_idx>> \in live
    /\ ~IsEmpty(engineered_chunk)
    /\ engineer_features(chunk).frame.columns # schema_columns
    /\ Len(engineer_features(chunk).frame.columns) # Len(schema_columns)
    /\ Len(output) > 1 + Len(engineered_sample.rows)
    /\ Last(output).cells = Last(engineered_chunk.rows)

C3_Reconciliation ==
    pc = "chunk_aligned" =>
        LET produced == engineer_features(chunk).frame
        IN  /\ engineered_chunk.columns = schema_columns
            /\ Len(engineered_chunk.rows) = Len(produced.rows)
            /\ \A r \in DOMAIN engineered_chunk.rows :
                /\ DOMAIN engineered_chunk.rows[r] = DOMAIN schema_columns
                /\ \A k \in DOMAIN schema_columns :
                    engineered_chunk.rows[r][k] =
                        IF \E j \in DOMAIN produced.columns :
                               produced.columns[j] = schema_columns[k]
                        THEN produced.rows[r][CHOOSE j \in DOMAIN produced.columns :
                                                  produced.columns[j] = schema_columns[k]]
                        ELSE Whole(0)

\* A chunk has been reconciled that produced an indicator the sample never
\* saw and lacked an indicator of the schema.
C3_Witness ==
    /\ pc = "chunk_aligned"
    /\ schema_columns = <<"loan_amnt", "term_months", "fico_score", "term_36 months",
                          "loan_status">>
    /\ engineer_features(chunk).frame.columns =
         <<"loan_amnt", "term_months", "fico_score", "term_60 months", "loan_status">>
    /\ engineered_chunk.rows = <<<<NumNaN, Whole(60), NumNaN, Whole(0), Whole(0)>>>>

\* C5: of a batch with a label column exactly the rows with label "accepted"
\* or "rejected" (trimmed, lower-cased) are in the output, in order, with
\* label 1 and 0; and the output is what the batch without the other rows
\* gives, so that the dropped rows have no part in medians, modes or indicator
\* columns.
C5_LabelFilter ==
    ((SampleEngineered \/ ChunkEngineered) /\ LabelAt(source.columns) # 0) =>
        LET valid == ValidRows(RawBatch)
        IN  /\ Len(EngineeredBatch.rows) = Len(valid)
            /\ Last(EngineeredBatch.columns) = "loan_status"
            /\ \A i \in DOMAIN valid :
                Last(EngineeredBatch.rows[i]) = ExpectedLabel(valid[i][LabelAt(source.columns)])
            /\ EngineeredBatch =
                 engineer_features([columns |-> source.columns, rows |-> valid]).frame

\* A chunk has been engineered whose dropped row carried a category and a
\* number that the kept row did not.
C5_Witness ==
    /\ pc = "chunk_engineered"
    /\ chunk.columns = LabelledHeader
    /\ chunk.rows = <<<<AcceptedShout, NaN, <<"5">>>>, <<PendingLabel, Months60, <<"9">>>>>>
    /\ engineered_chunk =
         [columns |-> <<"loan_amnt", "term_months", "fico_score", "term_unknown",
                        "loan_status">>,
          rows |-> <<<<Whole(5), NumNaN, NumNaN, Whole(1), Whole(1)>>>>]

\* The frame bound to a local of the driver.
FrameOf(name) ==
    IF name = "df_sample" THEN df_sample
    ELSE IF name = "engineered_sample" THEN engineered_sample
    ELSE IF name = "chunk" THEN chunk
    ELSE engineered_chunk

\* The batches of which rows are resident: the sample is batch 0, the k-th
\* chunk batch k, raw or engineered.
ResidentBatches == {b[2] : b \in {x \in live : Len(FrameOf(x[1]).rows) > 0}}

\* C6: at every point of a run the rows of at most one batch (the sample, or
\* one chunk, raw or engineered) are resident: the engineered sample is no
\* longer held once the first chunk is read, and each chunk is released
\* before the next is read.
C6_OneBatchResident == Cardinality(ResidentBatches) <= 1

\* The normalized names of the raw fields of the three files.
FieldsOf(header) ==
    IF header = LabelledHeader THEN {"loan_status", "term", "loan_amnt"}
    ELSE IF header = ScoredHeader
         THEN {"int_rate", "fico_range_low", "fico_range_high", "loan_status"}
    ELSE {"emp_length", "home_ownership"}

\* The column names a present raw field can give rise to in the output.
ColumnsFrom(field, df) ==
    IF field \in Range(RAW_CATEGORICAL_COLUMNS)
    THEN UNION {{field \o "_" \o Str(StrLower(Strip(v))) :
                    v \in {row[at] : row \in Range(df.rows)} \ {NaN}} :
                at \in {ColumnAt(normalize_columns(df), field)}}
         \cup {field \o "_unknown"}
         \cup (IF field = "term" THEN {"term_months"} ELSE {})
         \cup (IF field = "emp_length" THEN {"emp_length_years"} ELSE {})
    ELSE {field}

\* What C9 says of every field but the composite score: an absent field
\* leaves no column (every output column comes from a present field), and the
\* derived term and employment length columns are there exactly when their
\* source field is.
AbsentFieldsSkipped(fields, out) ==
    /\ \A raw \in {RawBatch} :
         Range(out.columns) \ {"fico_score"} \subseteq
             UNION {ColumnsFrom(f, raw) : f \in fields}
    /\ HasColumn(out, "term_months") <=> "term" \in fields
    /\ HasColumn(out, "emp_length_years") <=> "emp_length" \in fields
    /\ \A f \in Range(RAW_NUMERIC_COLUMNS) : HasColumn(out, f) <=> f \in fields
    /\ HasColumn(out, "loan_status") <=> "loan_status" \in fields

\* C9 as stated: absent fields are skipped, and the composite score column is
\* in the output only when one of the two bound fields is in the batch.
C9_ScoreOnlyWithBounds ==
    (SampleEngineered \/ ChunkEngineered) =>
        /\ AbsentFieldsSkipped(FieldsOf(source.columns), EngineeredBatch)
        /\ HasColumn(EngineeredBatch, "fico_score") <=>
             FieldsOf(source.columns) \cap {"fico_range_low", "fico_range_high"} # {}

\* C9 as amended: absent fields are skipped without a failure, the term and
\* employment length columns are in the output exactly when their source
\* field is, and the composite score column is in the output of every batch,
\* every one of its values missing when neither bound field is in the batch.
C9_ScoreAlways ==
    (SampleEngineered \/ ChunkEngineered) =>
        /\ AbsentFieldsSkipped(FieldsOf(source.columns), EngineeredBatch)
        /\ HasColumn(EngineeredBatch, "fico_score")
        /\ FieldsOf(source.columns) \cap {"fico_range_low", "fico_range_high"} = {} =>
             \A r \in DOMAIN EngineeredBatch.rows :
                 Column(EngineeredBatch, "fico_score")[r] = NumNaN

\* A batch without the bound fields and without the term has been engineered,
\* and its output has the composite score column.
C9_Witness ==
    /\ pc = "chunk_engineered"
    /\ source.columns = PlainHeader
    /\ chunk.rows = <<<<Under1, Own>>>>
    /\ engineered_chunk =
         [columns |-> <<"emp_length_years", "fico_score", "emp_length_< 1 year",
                        "home_ownership_own">>,
          rows |-> <<<<Whole(0), NumNaN, Whole(1), Whole(1)>>>>]

\* The number a raw row holds for a numeric output column, NumNaN when it is
\* missing or not numeric (header: the normalized names of the row's fields).
RawNumber(column, header, row) ==
    LET one == [columns |-> header, rows |-> <<row>>]
    IN  IF column = "term_months" THEN parse_term(Column(one, "term")[1]).value
        ELSE IF column = "emp_length_years"
             THEN parse_emp_length(Column(one, "emp_length")[1]).value
        ELSE IF column = "int_rate" THEN parse_percentage(Column(one, "int_rate")[1]).value
        ELSE IF column = "fico_score" THEN build_fico_score(one)[1]
        ELSE ToNumeric(Column(one, column)[1])

NumericNames == Range(RAW_NUMERIC_COLUMNS) \cup {"term_months", "emp_length_years", "fico_score"}

\* x is the k-th smallest of the values of vals.
KthSmallest(x, k, vals) ==
    /\ x \in Range(vals)
    /\ Cardinality({i \in DOMAIN vals : NumLess(vals[i], x)}) < k
    /\ k <= Cardinality({i \in DOMAIN vals : ~NumLess(x, vals[i])})

\* m is the median of the values of vals: the middle one, or the mean of the
\* two middle ones.
IsMedian(m, vals) ==
    \E a, b \in Range(vals) :
        /\ KthSmallest(a, (Len(vals) + 1) \div 2, vals)
        /\ KthSmallest(b, Len(vals) \div 2 + 1, vals)
        /\ ~IsNumNaN(m)
        /\ NumAdd(m, m) = NumAdd(a, b)

\* The normalized text of a raw categorical cell, NaN when it is missing.
CategoryOf(cell) ==
    IF IsNa(cell) \/ StrLower(Strip(cell)) = <<"n", "a", "n">> THEN NaN
    ELSE StrLower(Strip(cell))

=============================================================================
